---- MODULE Spec2Model ----
(***************************************************************************)
(* Model of the volume controller content script (src/content.js).         *)
(*                                                                         *)
(* Volumes are fixed-point numbers in hundredths: 100 stands for 1.0.      *)
(* Every handler of the script runs to completion on the page's event      *)
(* loop, so each handler is one action.  A handler is written as an        *)
(* operator from a state record to a state record, composed the way the    *)
(* code calls its functions; the outcomes the platform decides (does a     *)
(* constructor throw, does wiring an element throw) are parameters the     *)
(* actions choose with \E.                                                 *)
(*                                                                         *)
(* The popup script (src/unnamed/part_001) is modelled next to it as one   *)
(* record, popup, with its own specification SpecPopup; it stores and      *)
(* sends volumes as integer percent.                                       *)
(***************************************************************************)
EXTENDS Integers, Sequences, FiniteSets, TLC

\* ------------------------------------------------------------------ bounds
NumElems == 1        \* media elements that exist on the page
MaxPending == 3      \* resume() promises in flight at once
MaxQueue == 2        \* entries of the mutation watcher's processingQueue
MaxGestures == 2     \* gesture events the user produces
NumElemsW == 2       \* media elements of the page in SpecWatcher
MaxSent == 3         \* setVolume messages the popup issues while it is open
MaxHolds == 2        \* mousedown events on the popup's + and - buttons
MaxTicks == 2        \* runs of the hold-to-repeat interval callback

\* Every element identity the model speaks of; a page uses a prefix of them.
Elems == 1..(IF NumElems >= NumElemsW THEN NumElems ELSE NumElemsW)
ReqVolumes == {-100, 600}            \* request.volume values of setVolume messages
SavedVolumes == {500, 600}           \* values stored under the hostname key (percent)
ElVolumes == {40}                    \* element.volume before the script touches it
DefaultGain == 100                   \* a fresh GainNode's gain.value is 1
NumGestureTypes == 5                 \* click, touchstart, keydown, mousedown, pointerdown
InitOutcomes == {"ctorThrows", "createGainThrows", "connectThrows", "ok"}
CreatedStates == {"suspended", "running"}
\* The response record before sendResponse has been called.
NoResponse == [sent |-> FALSE, success |-> FALSE, volume |-> 0]

VARIABLES
  currentVolume,           \* let currentVolume
  ctx,                     \* audioContext: "null", or audioContext.state
  gainNode,                \* gainNode !== null
  gainTarget,              \* the value gainNode.gain was last set or targeted to
  initializationAttempted,
  mediaElements,           \* the tracked array
  connectedElements,       \* the WeakSet
  audioSourceNode,         \* element.audioSourceNode is set
  datasetConnected,        \* element.dataset.volumeControllerConnected is set
  elVolume,                \* element.volume
  isConnected,             \* element.isConnected: the element is in the document
  platformSource,          \* the platform has bound a MediaElementSource to the element
  mutationObserver,        \* "null" or "observing"
  observing,               \* number of MutationObserver objects observing document.body
  processingQueue,
  processingTimer,         \* the debounce timer is armed
  isCleanedUp,
  throttled,               \* Date.now() - lastMediaQuery < mediaQueryThrottleTime
  pendingResumes,          \* continuations of resume() promises not yet settled, oldest first
  closePending,            \* audioContext.close() requested, not yet completed
  listeners,               \* number of gesture types whose once-listener is still registered
  initPending,             \* initialize() has not run yet
  storagePending,          \* chrome.storage.local.get callback not yet delivered
  page,                    \* the media elements the page holds or will insert (never changes)
  \* observations of calls and results (history, never read by the handlers)
  ctorCalls,               \* times the AudioContext constructor was invoked
  closeCalls,              \* times audioContext.close() was invoked
  initResults,             \* the values initializeAudioContext has returned
  rewired,                 \* elements createMediaElementSource was called on again before teardown
  connectedCallReturns,    \* results of connect calls on already Connected elements
  popup,                   \* the popup script's variables, its two controls and the stored value
  lastChange               \* the latest volume change the popup's user made

vars == << currentVolume, ctx, gainNode, gainTarget, initializationAttempted,
           mediaElements, connectedElements, audioSourceNode, datasetConnected,
           elVolume, isConnected, platformSource, mutationObserver,
           processingQueue, processingTimer, isCleanedUp, throttled,
           pendingResumes, closePending, listeners, initPending, storagePending,
           observing, page, ctorCalls, closeCalls, initResults, rewired,
           connectedCallReturns, popup, lastChange >>

\* The state as one record, so that handlers compose as functions; ret holds the
\* return value of the function applied last, response what the message handler
\* passed to sendResponse, attempts the createMediaElementSource calls made on
\* each element since the record was taken.
Cur ==
  [ currentVolume |-> currentVolume, ctx |-> ctx, gainNode |-> gainNode,
    gainTarget |-> gainTarget, initializationAttempted |-> initializationAttempted,
    mediaElements |-> mediaElements, connectedElements |-> connectedElements,
    audioSourceNode |-> audioSourceNode, datasetConnected |-> datasetConnected,
    elVolume |-> elVolume, isConnected |-> isConnected,
    platformSource |-> platformSource, mutationObserver |-> mutationObserver,
    processingQueue |-> processingQueue, processingTimer |-> processingTimer,
    isCleanedUp |-> isCleanedUp, throttled |-> throttled,
    pendingResumes |-> pendingResumes, closePending |-> closePending,
    listeners |-> listeners, initPending |-> initPending,
    storagePending |-> storagePending, ctorCalls |-> ctorCalls,
    closeCalls |-> closeCalls, initResults |-> initResults,
    rewired |-> rewired, connectedCallReturns |-> connectedCallReturns,
    observing |-> observing, page |-> page,
    ret |-> FALSE, response |-> NoResponse, attempts |-> [e \in Elems |-> 0] ]

Commit(s) ==
  /\ currentVolume' = s.currentVolume
  /\ ctx' = s.ctx
  /\ gainNode' = s.gainNode
  /\ gainTarget' = s.gainTarget
  /\ initializationAttempted' = s.initializationAttempted
  /\ mediaElements' = s.mediaElements
  /\ connectedElements' = s.connectedElements
  /\ audioSourceNode' = s.audioSourceNode
  /\ datasetConnected' = s.datasetConnected
  /\ elVolume' = s.elVolume
  /\ isConnected' = s.isConnected
  /\ platformSource' = s.platformSource
  /\ mutationObserver' = s.mutationObserver
  /\ processingQueue' = s.processingQueue
  /\ processingTimer' = s.processingTimer
  /\ isCleanedUp' = s.isCleanedUp
  /\ throttled' = s.throttled
  /\ pendingResumes' = s.pendingResumes
  /\ closePending' = s.closePending
  /\ listeners' = s.listeners
  /\ initPending' = s.initPending
  /\ storagePending' = s.storagePending
  /\ ctorCalls' = s.ctorCalls
  /\ closeCalls' = s.closeCalls
  /\ initResults' = s.initResults
  /\ rewired' = s.rewired
  /\ connectedCallReturns' = s.connectedCallReturns
  /\ observing' = s.observing
  /\ page' = s.page
  /\ UNCHANGED << popup, lastChange >>

\* ------------------------------------------------------------ helpers
Max(a, b) == IF a >= b THEN a ELSE b
Min(a, b) == IF a <= b THEN a ELSE b

Includes(seq, e) == \E i \in 1..Len(seq) : seq[i] = e

\* document.querySelectorAll('audio, video'): the elements in the document,
\* in document order (taken to be the order of the element ids).
RECURSIVE querySelectorAll(_, _)
querySelectorAll(s, i) ==
  IF i \notin Elems THEN << >>
  ELSE (IF s.isConnected[i] THEN << i >> ELSE << >>) \o querySelectorAll(s, i + 1)

\* ------------------------------------------------- initializeAudioContext
\* Variant without the initializationAttempted guard of line 18: every call
\* constructs again.
initializeAudioContext_NoCache(s, oc, st) ==
  LET s1 == [s EXCEPT !.initializationAttempted = TRUE, !.ctorCalls = @ + 1]
      s2 == IF oc = "ok"
            THEN [s1 EXCEPT !.ctx = st, !.gainNode = TRUE,
                            !.gainTarget = s.currentVolume]
            ELSE s1
  IN [s2 EXCEPT !.ret = (oc = "ok"), !.initResults = @ \cup {oc = "ok"}]

initializeAudioContext(s, oc, st) ==
  IF s.initializationAttempted
  THEN [s EXCEPT !.ret = (s.ctx # "null"), !.initResults = @ \cup {s.ctx # "null"}]
  ELSE
    LET s1 == [s EXCEPT !.initializationAttempted = TRUE,
                        !.ctorCalls = @ + 1]
        s2 == CASE oc = "ctorThrows" -> s1
                [] oc = "createGainThrows" -> [s1 EXCEPT !.ctx = st]
                [] oc = "connectThrows" ->
                     [s1 EXCEPT !.ctx = st, !.gainNode = TRUE,
                                !.gainTarget = DefaultGain]
                [] OTHER ->
                     [s1 EXCEPT !.ctx = st, !.gainNode = TRUE,
                                !.gainTarget = s.currentVolume]
        r == (oc = "ok")
    IN [s2 EXCEPT !.ret = r, !.initResults = @ \cup {r}]

\* ------------------------------------------------ connectElementToWebAudio
\* ok: the platform accepts wiring this element (it refuses, whatever ok says,
\* an element it has already bound a source node to).

\* Variant without the already-connected checks of lines 62 and 68.
connectElementToWebAudioBody_NoGuard(s, e, ok) ==
  IF s.ctx = "null" \/ ~s.gainNode
  THEN [s EXCEPT !.ret = FALSE]
  ELSE
    LET s1 == [s EXCEPT !.elVolume[e] = 100,
                        !.attempts[e] = @ + 1,
                        !.rewired = IF s.platformSource[e] /\ ~s.isCleanedUp
                                   THEN @ \cup {e} ELSE @]
    IN IF ok /\ ~s.platformSource[e]
       THEN [s1 EXCEPT !.platformSource[e] = TRUE,
                       !.audioSourceNode[e] = TRUE,
                       !.connectedElements = @ \cup {e},
                       !.datasetConnected[e] = TRUE,
                       !.ret = TRUE]
       ELSE [s1 EXCEPT !.ret = FALSE]

\* Variant without the element.volume = 1.0 of line 74.
connectElementToWebAudioBody_NoPin(s, e, ok) ==
  IF s.ctx = "null" \/ ~s.gainNode \/ e \in s.connectedElements
  THEN [s EXCEPT !.ret = FALSE]
  ELSE IF s.audioSourceNode[e]
  THEN [s EXCEPT !.ret = TRUE]
  ELSE IF ok /\ ~s.platformSource[e]
  THEN [s EXCEPT !.platformSource[e] = TRUE,
                 !.audioSourceNode[e] = TRUE,
                 !.connectedElements = @ \cup {e},
                 !.datasetConnected[e] = TRUE,
                 !.ret = TRUE]
  ELSE [s EXCEPT !.ret = FALSE]

connectElementToWebAudioBody(s, e, ok) ==
  IF s.ctx = "null" \/ ~s.gainNode \/ e \in s.connectedElements
  THEN [s EXCEPT !.ret = FALSE]
  ELSE IF s.audioSourceNode[e]
  THEN [s EXCEPT !.ret = TRUE]
  ELSE
    LET s1 == [s EXCEPT !.elVolume[e] = 100,
                        !.attempts[e] = @ + 1,
                        !.rewired = IF s.platformSource[e] /\ ~s.isCleanedUp
                                   THEN @ \cup {e} ELSE @]
    IN IF ok /\ ~s.platformSource[e]
       THEN [s1 EXCEPT !.platformSource[e] = TRUE,
                       !.audioSourceNode[e] = TRUE,
                       !.connectedElements = @ \cup {e},
                       !.datasetConnected[e] = TRUE,
                       !.ret = TRUE]
       ELSE [s1 EXCEPT !.ret = FALSE]

connectElementToWebAudio(s, e, ok) ==
  LET t == connectElementToWebAudioBody(s, e, ok)
  IN IF e \in s.connectedElements
     THEN [t EXCEPT !.connectedCallReturns = @ \cup {t.ret}]
     ELSE t

\* seq.forEach(element => connectElementToWebAudio(element))
RECURSIVE ConnectEach(_, _, _)
ConnectEach(s, seq, okf) ==
  IF seq = << >> THEN s
  ELSE ConnectEach(connectElementToWebAudio(s, Head(seq), okf[Head(seq)]),
                   Tail(seq), okf)

\* ------------------------------------------------------ findMediaElements
\* Variant without the throttle check of lines 43-45.
findMediaElements_NoThrottle(s, okf) ==
  LET elements == querySelectorAll(s, 1)
      newElements == SelectSeq(elements, LAMBDA el : ~Includes(s.mediaElements, el))
      s1 == [s EXCEPT !.throttled = TRUE,
                      !.mediaElements = @ \o newElements]
  IN ConnectEach(s1, newElements, okf)

findMediaElements(s, okf) ==
  IF s.throttled THEN s
  ELSE
    LET elements == querySelectorAll(s, 1)
        newElements == SelectSeq(elements, LAMBDA el : ~Includes(s.mediaElements, el))
        s1 == [s EXCEPT !.throttled = TRUE,
                        !.mediaElements = @ \o newElements]
    IN ConnectEach(s1, newElements, okf)

\* ------------------------------------------------ applyVolumeWithWebAudio
\* Variant that falls back to the elements' own volume, capped at 1.0, when
\* there is no context.
applyVolumeWithWebAudio_LocalFallback(s, volume) ==
  IF s.ctx = "null" \/ ~s.gainNode
  THEN [s EXCEPT !.ret = FALSE,
                 !.elVolume = [e \in Elems |->
                                 IF Includes(s.mediaElements, e)
                                 THEN (@[e] * Min(volume, 100)) \div 100
                                 ELSE @[e]]]
  ELSE [s EXCEPT !.gainTarget = volume, !.ret = TRUE]

applyVolumeWithWebAudio(s, volume) ==
  IF s.ctx = "null" \/ ~s.gainNode
  THEN [s EXCEPT !.ret = FALSE]
  ELSE [s EXCEPT !.gainTarget = volume, !.ret = TRUE]

\* audioContext.resume(): the promise stays pending until the platform settles it.
resume(s, k) == [s EXCEPT !.pendingResumes = Append(@, k)]

\* ------------------------------------------------ connectAllMediaElements
\* mediaElements.forEach(element => { if (element.isConnected &&
\*   !connectedElements.has(element)) connectElementToWebAudio(element) })
RECURSIVE ConnectEachUnconnected(_, _, _)
ConnectEachUnconnected(s, seq, okf) ==
  IF seq = << >> THEN s
  ELSE LET el == Head(seq)
           s1 == IF s.isConnected[el] /\ el \notin s.connectedElements
                 THEN connectElementToWebAudio(s, el, okf[el])
                 ELSE s
       IN ConnectEachUnconnected(s1, Tail(seq), okf)

\* The part after the await (lines 153-161).
connectAllAfterResume(s, okf) ==
  LET kept == SelectSeq(s.mediaElements, LAMBDA el : s.isConnected[el])
      s1 == [s EXCEPT !.mediaElements = kept]
  IN ConnectEachUnconnected(s1, kept, okf)

connectAllMediaElements(s, okf) ==
  IF s.ctx = "null" \/ ~s.gainNode THEN s
  ELSE IF s.ctx = "suspended"
  THEN resume(s, [kind |-> "connectAll", vol |-> 0])
  ELSE connectAllAfterResume(s, okf)

\* ----------------------------------------------------------- setPageVolume
\* oc, st: what the platform does if the context is created here; okf: which
\* elements it accepts to wire during this call.
setPageVolume(s, volume, oc, st, okf) ==
  LET s1 == [s EXCEPT !.currentVolume = volume]
      s2 == IF s1.ctx = "null" THEN initializeAudioContext(s1, oc, st) ELSE s1
      s3 == IF s2.ctx = "suspended"
            THEN resume(s2, [kind |-> "setPageVolume", vol |-> volume])
            ELSE applyVolumeWithWebAudio(s2, volume)
      s4 == findMediaElements(s3, okf)
  IN connectAllMediaElements(s4, okf)

\* ------------------------------------------------------ setupMediaObserver
\* mediaToProcess.forEach(media => { ... }) of processMediaQueue
\* Variant that pushes every queued element without the includes test of
\* line 182.
RECURSIVE ProcessEach_NoIncludes(_, _, _)
ProcessEach_NoIncludes(s, seq, okf) ==
  IF seq = << >> THEN s
  ELSE LET media == Head(seq)
           s1 == [s EXCEPT !.mediaElements = Append(@, media)]
       IN ProcessEach_NoIncludes(connectElementToWebAudio(s1, media, okf[media]),
                                 Tail(seq), okf)

RECURSIVE ProcessEach(_, _, _)
ProcessEach(s, seq, okf) ==
  IF seq = << >> THEN s
  ELSE LET media == Head(seq)
           s1 == IF ~Includes(s.mediaElements, media)
                 THEN [s EXCEPT !.mediaElements = Append(@, media)]
                 ELSE s
       IN ProcessEach(connectElementToWebAudio(s1, media, okf[media]), Tail(seq), okf)

\* Variant whose flush handles only the first queued element and leaves the
\* others in the queue.
processMediaQueue_HeadOnly(s, okf) ==
  IF Len(s.processingQueue) = 0 THEN s
  ELSE LET mediaToProcess == << Head(s.processingQueue) >>
       IN ProcessEach([s EXCEPT !.processingQueue = Tail(@)], mediaToProcess, okf)

processMediaQueue(s, okf) ==
  IF Len(s.processingQueue) = 0 THEN s
  ELSE LET mediaToProcess == s.processingQueue
       IN ProcessEach([s EXCEPT !.processingQueue = << >>], mediaToProcess, okf)

\* Variant whose callback starts a new batch each time it re-arms the timer.
observerCallback_NewBatch(s, node) ==
  [s EXCEPT !.processingQueue = << node >>, !.processingTimer = TRUE]

\* The MutationObserver callback for one inserted media element.
observerCallback(s, node) ==
  [s EXCEPT !.processingQueue = Append(@, node), !.processingTimer = TRUE]

\* initialize runs at or after DOMContentLoaded, so document.body exists and the
\* new observer is attached; the queue and the timer are fresh closure variables.

\* Variant without the disconnect of lines 166-168.
setupMediaObserver_NoDisconnect(s) ==
  [s EXCEPT !.processingQueue = << >>, !.processingTimer = FALSE,
            !.mutationObserver = "observing", !.observing = @ + 1]

setupMediaObserver(s) ==
  LET s1 == IF s.mutationObserver # "null"
            THEN [s EXCEPT !.observing = @ - 1]
            ELSE s
  IN [s1 EXCEPT !.processingQueue = << >>, !.processingTimer = FALSE,
                !.mutationObserver = "observing", !.observing = @ + 1]

\* -------------------------------------------------------------- initialize
loadSavedVolume(s) == [s EXCEPT !.storagePending = TRUE]

initialize(s, oc, st, okf) ==
  LET s1 == initializeAudioContext(s, oc, st)
      audioInitialized == s1.ret
  IN IF audioInitialized
     THEN loadSavedVolume(setupMediaObserver(findMediaElements(s1, okf)))
     ELSE s1

\* ----------------------------------------------------------------- cleanup
\* Variant without the isCleanedUp guard of line 303.
cleanup_NoGuard(s) ==
  LET closing == s.ctx # "null" /\ s.ctx # "closed"
      tracked == { s.mediaElements[i] : i \in 1..Len(s.mediaElements) }
  IN [s EXCEPT
        !.isCleanedUp = TRUE,
        !.mutationObserver = "null",
        !.observing = IF s.mutationObserver # "null" THEN @ - 1 ELSE @,
        !.closePending = @ \/ closing,
        !.closeCalls = IF closing THEN @ + 1 ELSE @,
        !.elVolume = [e \in Elems |-> IF e \in tracked THEN 100 ELSE @[e]],
        !.audioSourceNode = [e \in Elems |-> IF e \in tracked THEN FALSE ELSE @[e]],
        !.datasetConnected = [e \in Elems |-> IF e \in tracked THEN FALSE ELSE @[e]],
        !.mediaElements = << >>,
        !.connectedElements = {}]

cleanup(s) ==
  IF s.isCleanedUp THEN s
  ELSE
    LET closing == s.ctx # "null" /\ s.ctx # "closed"
        tracked == { s.mediaElements[i] : i \in 1..Len(s.mediaElements) }
    IN [s EXCEPT
          !.isCleanedUp = TRUE,
          !.mutationObserver = "null",
          !.observing = IF s.mutationObserver # "null" THEN @ - 1 ELSE @,
          !.closePending = @ \/ closing,
          !.closeCalls = IF closing THEN @ + 1 ELSE @,
          !.elVolume = [e \in Elems |-> IF e \in tracked THEN 100 ELSE @[e]],
          !.audioSourceNode = [e \in Elems |-> IF e \in tracked THEN FALSE ELSE @[e]],
          !.datasetConnected = [e \in Elems |-> IF e \in tracked THEN FALSE ELSE @[e]],
          !.mediaElements = << >>,
          !.connectedElements = {}]

\* ---------------------------------------------------- handleUserActivation
handleUserActivation(s) ==
  IF s.ctx = "suspended"
  THEN resume(s, [kind |-> "activation", vol |-> 0])
  ELSE s

\* Variant whose activation continuation does not re-apply the volume (line 363).
continuation_NoReapply(s, k, okf) ==
  CASE k.kind = "setPageVolume" -> applyVolumeWithWebAudio(s, k.vol)
    [] k.kind = "connectAll" -> connectAllAfterResume(s, okf)
    [] OTHER -> connectAllMediaElements(s, okf)

\* Variant whose activation continuation re-applies the volume but does not run
\* connectAllMediaElements (line 364).
continuation_NoReconcile(s, k, okf) ==
  CASE k.kind = "setPageVolume" -> applyVolumeWithWebAudio(s, k.vol)
    [] k.kind = "connectAll" -> connectAllAfterResume(s, okf)
    [] OTHER -> applyVolumeWithWebAudio(s, s.currentVolume)

\* What runs when the platform resolves the oldest pending resume() promise.
continuation(s, k, okf) ==
  CASE k.kind = "setPageVolume" -> applyVolumeWithWebAudio(s, k.vol)
    [] k.kind = "connectAll" -> connectAllAfterResume(s, okf)
    [] OTHER -> connectAllMediaElements(applyVolumeWithWebAudio(s, s.currentVolume), okf)

\* The callback passed to chrome.storage.local.get (lines 287-298): saved is
\* FALSE when lastError is set or nothing is stored under the key.
storageCallback(s, saved, savedVolume, oc, st, okf) ==
  LET s0 == [s EXCEPT !.storagePending = FALSE]
  IN IF saved THEN setPageVolume(s0, savedVolume, oc, st, okf) ELSE s0

\* ------------------------------------------------------- message listener
\* chrome.runtime.onMessage: request is the message; oc, st, okf are the
\* platform's choices during the setPageVolume it may call.

\* Variant that forwards request.volume without the clamp of line 236.
onMessage_NoClamp(s, request, oc, st, okf) ==
  IF request.action = "setVolume"
  THEN LET volume == request.volume
       IN [setPageVolume(s, volume, oc, st, okf)
             EXCEPT !.response = [sent |-> TRUE, success |-> TRUE, volume |-> volume]]
  ELSE IF request.action = "getVolume"
  THEN [s EXCEPT !.response = [sent |-> TRUE, success |-> TRUE,
                               volume |-> s.currentVolume]]
  ELSE s

\* Variant whose getVolume branch re-applies the volume before answering.
onMessage_GetReapplies(s, request, oc, st, okf) ==
  IF request.action = "setVolume"
  THEN LET volume == Max(0, Min(500, request.volume))
       IN [setPageVolume(s, volume, oc, st, okf)
             EXCEPT !.response = [sent |-> TRUE, success |-> TRUE, volume |-> volume]]
  ELSE IF request.action = "getVolume"
  THEN [applyVolumeWithWebAudio(s, s.currentVolume)
             EXCEPT !.ret = s.ret,
                    !.response = [sent |-> TRUE, success |-> TRUE,
                                  volume |-> s.currentVolume]]
  ELSE s

onMessage(s, request, oc, st, okf) ==
  IF request.action = "setVolume"
  THEN LET volume == Max(0, Min(500, request.volume))
       IN [setPageVolume(s, volume, oc, st, okf)
             EXCEPT !.response = [sent |-> TRUE, success |-> TRUE, volume |-> volume]]
  ELSE IF request.action = "getVolume"
  THEN [s EXCEPT !.response = [sent |-> TRUE, success |-> TRUE,
                               volume |-> s.currentVolume]]
  ELSE s

\* ==================================================================== Init
InitState ==
  /\ currentVolume = 100
  /\ ctx = "null"
  /\ gainNode = FALSE
  /\ gainTarget = DefaultGain
  /\ initializationAttempted = FALSE
  /\ mediaElements = << >>
  /\ connectedElements = {}
  /\ audioSourceNode = [e \in Elems |-> FALSE]
  /\ datasetConnected = [e \in Elems |-> FALSE]
  /\ elVolume \in [Elems -> ElVolumes]
  /\ isConnected \in [Elems -> BOOLEAN]
  /\ \A e \in Elems \ page : ~isConnected[e]
  /\ platformSource = [e \in Elems |-> FALSE]
  /\ mutationObserver = "null"
  /\ observing = 0
  /\ processingQueue = << >>
  /\ processingTimer = FALSE
  /\ isCleanedUp = FALSE
  /\ throttled = FALSE
  /\ pendingResumes = << >>
  /\ closePending = FALSE
  /\ listeners = NumGestureTypes
  /\ initPending = TRUE
  /\ storagePending = FALSE
  /\ ctorCalls = 0
  /\ closeCalls = 0
  /\ initResults = {}
  /\ rewired = {}
  /\ connectedCallReturns = {}

\* The popup is not open during the page's own behaviours.
PopupClosed ==
  [currentTabId |-> FALSE, volumeChangeTimer |-> << >>, volumeSlider |-> 100,
   volumeInput |-> << 100 >>, isInputFocused |-> FALSE,
   originalValue |-> << 100 >>, loading |-> "query", stored |-> << >>,
   sent |-> << >>,
   holdTimer |-> << >>, holdInterval |-> << >>, isHolding |-> FALSE,
   holds |-> << >>, timeouts |-> {}, intervals |-> {}, ticks |-> 0]
\* lastChange: the volume and the path of the user's latest change, and the
\* debounce timer that was pending when it was made.
NoChange == [volume |-> 100, mode |-> "none", cancelled |-> << >>]

Init == page = 1..NumElems /\ InitState /\ popup = PopupClosed /\ lastChange = NoChange

\* The same script on a page that holds NumElemsW media elements.
InitWatcher ==
  page = 1..NumElemsW /\ InitState /\ popup = PopupClosed /\ lastChange = NoChange

\* ================================================================= actions
Bounded(s) == Len(s.pendingResumes) <= MaxPending

\* The platform's outcomes of creating the context, chosen only where
\* initializeAudioContext will create it.  A context created after a gesture is
\* allowed to start and is created running; before any gesture the autoplay
\* policy decides.
Outcomes == IF initializationAttempted THEN {<< "ok", "running" >>}
            ELSE IF listeners < NumGestureTypes THEN InitOutcomes \X {"running"}
            ELSE InitOutcomes \X CreatedStates

\* DOMContentLoaded, or the script's own start when the document has loaded.
Initialize ==
  /\ initPending
  /\ \E o \in Outcomes, okf \in [page -> BOOLEAN] :
       Commit([initialize(Cur, o[1], o[2], okf) EXCEPT !.initPending = FALSE])

\* chrome.runtime.onMessage, action 'setVolume'.
SetVolume ==
  \E v \in ReqVolumes, o \in Outcomes, okf \in [page -> BOOLEAN] :
    LET s == onMessage(Cur, [action |-> "setVolume", volume |-> v], o[1], o[2], okf)
    IN Bounded(s) /\ Commit(s)

\* chrome.runtime.onMessage, action 'getVolume' (the platform's choices play no
\* part in it).
GetVolume ==
  Commit(onMessage(Cur, [action |-> "getVolume"], "ok", "running",
                   [e \in page |-> TRUE]))

\* The chrome.storage.local.get callback of loadSavedVolume: lastError is
\* set or nothing is saved (saved = FALSE), or a saved value is delivered.
StorageCallback ==
  /\ storagePending
  /\ \E saved \in BOOLEAN, savedVolume \in SavedVolumes, o \in Outcomes,
        okf \in [page -> BOOLEAN] :
       LET s == storageCallback(Cur, saved, savedVolume, o[1], o[2], okf)
       IN Bounded(s) /\ Commit(s)

\* A gesture event of a type whose once-listener is still registered.
Gesture ==
  /\ listeners > 0
  /\ NumGestureTypes - listeners < MaxGestures
  /\ LET s == handleUserActivation([Cur EXCEPT !.listeners = @ - 1])
     IN Bounded(s) /\ Commit(s)

\* The autoplay policy lets a suspended context start only after a gesture.
AllowedToStart == ctx = "running" \/ listeners < NumGestureTypes

\* The platform resolves the oldest pending resume() promise.
ResolveResume ==
  /\ pendingResumes # << >>
  /\ ctx \in {"suspended", "running"}
  /\ AllowedToStart
  /\ \E okf \in [page -> BOOLEAN] :
       Commit(continuation([Cur EXCEPT !.ctx = "running",
                                       !.pendingResumes = Tail(@)],
                           Head(pendingResumes), okf))

\* The platform rejects the oldest pending resume() promise: every catch only logs.
RejectResume ==
  /\ pendingResumes # << >>
  /\ ctx # "running"
  /\ Commit([Cur EXCEPT !.pendingResumes = Tail(@)])

\* The page inserts a media element; an armed observer queues it and re-arms the timer.
InsertElement ==
  \E e \in page :
    /\ ~isConnected[e]
    /\ LET s1 == [Cur EXCEPT !.isConnected[e] = TRUE]
       IN IF mutationObserver = "observing"
          THEN /\ Len(processingQueue) < MaxQueue
               /\ Commit(observerCallback(s1, e))
          ELSE Commit(s1)

RemoveElement ==
  \E e \in page :
    /\ isConnected[e]
    /\ Commit([Cur EXCEPT !.isConnected[e] = FALSE])

\* The 100 ms debounce timer fires.
TimerFires ==
  /\ processingTimer
  /\ \E okf \in [page -> BOOLEAN] :
       Commit(processMediaQueue([Cur EXCEPT !.processingTimer = FALSE], okf))

\* 500 ms have passed since lastMediaQuery.
ThrottleExpires ==
  /\ throttled
  /\ Commit([Cur EXCEPT !.throttled = FALSE])

\* beforeunload or pagehide.
Cleanup ==
  LET s == cleanup(Cur)
  IN Commit(s)

\* audioContext.close() completes.
CloseCompletes ==
  /\ closePending
  /\ Commit([Cur EXCEPT !.closePending = FALSE, !.ctx = "closed"])

Next ==
  \/ Initialize
  \/ SetVolume
  \/ GetVolume
  \/ StorageCallback
  \/ Gesture
  \/ ResolveResume
  \/ RejectResume
  \/ InsertElement
  \/ RemoveElement
  \/ TimerFires
  \/ ThrottleExpires
  \/ Cleanup
  \/ CloseCompletes

Spec == Init /\ [][Next]_vars

\* The Mutation Watcher on a page with NumElemsW media elements, during a visit
\* in which the user makes no gesture and does not leave the page.
NextWatcher ==
  \/ Initialize
  \/ SetVolume
  \/ GetVolume
  \/ StorageCallback
  \/ RejectResume
  \/ InsertElement
  \/ RemoveElement
  \/ TimerFires
  \/ ThrottleExpires

SpecWatcher == InitWatcher /\ [][NextWatcher]_vars

\* The debounce timer is due and runs: setTimeout calls processMediaQueue once
\* insertions pause for the 100 ms window (line 220).
TimerRuns == processingTimer /\ processingTimer' = FALSE

\* The same visit with an armed timer fairly scheduled. In NextWatcher only
\* TimerFires takes processingTimer from TRUE to FALSE, so this is weak
\* fairness of TimerFires.
SpecWatcherFair == SpecWatcher /\ WF_processingTimer(TimerRuns)

\* ================================================================== popup
\* src/unnamed/part_001.  Fields of popup: currentTabId (FALSE is null; the
\* tab's url is set with it), volumeChangeTimer (<< >> is null, << v >> a
\* pending timeout whose closure captured v), volumeSlider and volumeInput
\* (the controls' values; volumeInput is << >> while its text is not a number
\* in 0..500), isInputFocused, originalValue, loading (how far the start-up
\* chain tabs.query -> getVolume -> storage.get has come), stored (the entry
\* under the hostname key, << >> when absent) and sent (the volumes of the
\* setVolume messages issued so far, in percent; the message carries
\* volume / 100, which is the same number in hundredths).
PopupVolumes == {0, 250}             \* volumes the user picks, percent
StoredVolumes == {<< >>, << 0 >>, << 250 >>}
SliderMarkup == {100, 250}           \* the slider's value before the script runs

updateVolumeDisplay(p, volume) == [p EXCEPT !.volumeInput = << volume >>]

performVolumeChange(p, volume) ==
  [p EXCEPT !.sent = Append(@, volume), !.stored = << volume >>]

\* Variant whose immediate mode leaves a pending debounce timer alone.
sendVolumeChange_NoCancel(p, volume, mode) ==
  IF ~p.currentTabId THEN p
  ELSE LET p1 == updateVolumeDisplay(p, volume)
       IN CASE mode = "immediate" -> performVolumeChange(p1, volume)
            [] mode = "debounced" -> [p1 EXCEPT !.volumeChangeTimer = << volume >>]
            [] OTHER -> p1

sendVolumeChange(p, volume, mode) ==
  IF ~p.currentTabId THEN p
  ELSE LET p1 == updateVolumeDisplay(p, volume)
       IN CASE mode = "immediate" ->
                 performVolumeChange([p1 EXCEPT !.volumeChangeTimer = << >>], volume)
            [] mode = "debounced" -> [p1 EXCEPT !.volumeChangeTimer = << volume >>]
            [] OTHER -> p1

applyVolumeChange(p, volume) ==
  IF ~p.currentTabId THEN p
  ELSE performVolumeChange(
         [updateVolumeDisplay(p, volume) EXCEPT !.volumeChangeTimer = << >>], volume)

\* result[storageKey] || 100: undefined and 0 are both falsy.
SavedOrDefault(stored) ==
  IF stored = << >> \/ stored[1] = 0 THEN 100 ELSE stored[1]

\* The callback of chrome.storage.local.get in loadSavedVolumeFromStorage.
storageGetCallback(p, lastError) ==
  IF lastError THEN p
  ELSE LET savedVolume == SavedOrDefault(p.stored)
       IN updateVolumeDisplay([p EXCEPT !.volumeSlider = savedVolume], savedVolume)

\* The blur handler of the input field.
blur(p) ==
  LET p0 == [p EXCEPT !.isInputFocused = FALSE]
  IN IF p0.volumeInput = << >>
     THEN sendVolumeChange([p0 EXCEPT !.volumeInput = p.originalValue,
                                      !.volumeSlider = p.originalValue[1]],
                           p.originalValue[1], "deferred")
     ELSE applyVolumeChange([p0 EXCEPT !.volumeSlider = p0.volumeInput[1]],
                            p0.volumeInput[1])

\* ---------------------------------------------------------- hold to repeat
\* holds lists the delta of each startHold call so far; call number i
\* registers timeout i, whose callback registers interval i.  timeouts and
\* intervals are the ones the platform still has scheduled; holdTimer and
\* holdInterval are the script's handles (<< >> is null, << i >> timer i,
\* which may have run already); ticks counts the interval callbacks run.
changeVolume(p, delta) ==
  LET validVolume == IF p.volumeInput = << >> THEN 100 ELSE p.volumeInput[1]
      newVolume == Max(0, Min(500, validVolume + delta))
  IN sendVolumeChange([p EXCEPT !.volumeSlider = newVolume,
                                !.volumeInput = << newVolume >>],
                      newVolume, "immediate")

startHold(p, delta) ==
  LET p1 == changeVolume([p EXCEPT !.isHolding = FALSE], delta)
      id == Len(p.holds) + 1
  IN [p1 EXCEPT !.holds = Append(@, delta),
                !.timeouts = @ \cup {id},
                !.holdTimer = << id >>]

\* The callback of the 500 ms timeout that startHold call number id set.
holdTimeout(p, id) ==
  [p EXCEPT !.timeouts = @ \ {id},
            !.isHolding = TRUE,
            !.intervals = @ \cup {id},
            !.holdInterval = << id >>]

stopHold(p) ==
  LET p1 == IF p.holdTimer # << >>
            THEN [p EXCEPT !.timeouts = @ \ {p.holdTimer[1]}, !.holdTimer = << >>]
            ELSE p
      p2 == IF p1.holdInterval # << >>
            THEN [p1 EXCEPT !.intervals = @ \ {p1.holdInterval[1]},
                            !.holdInterval = << >>]
            ELSE p1
  IN [p2 EXCEPT !.isHolding = FALSE]

PopupUnchanged ==
  UNCHANGED << currentVolume, ctx, gainNode, gainTarget, initializationAttempted,
               mediaElements, connectedElements, audioSourceNode, datasetConnected,
               elVolume, isConnected, platformSource, mutationObserver,
               processingQueue, processingTimer, isCleanedUp, throttled,
               pendingResumes, closePending, listeners, initPending,
               storagePending, observing, page, ctorCalls, closeCalls,
               initResults, rewired, connectedCallReturns >>

\* DOMContentLoaded of the popup has run: line 322 copied the slider's markup
\* value into the input field and tabs.query is pending.
InitPopup ==
  /\ page = 1..NumElems /\ InitState
  /\ \E m \in SliderMarkup, st \in StoredVolumes :
       popup = [PopupClosed EXCEPT !.volumeSlider = m, !.volumeInput = << m >>,
                                   !.originalValue = << m >>, !.stored = st]
  /\ lastChange = NoChange

\* The callback of chrome.tabs.query.
TabsQueryCallback ==
  /\ popup.loading = "query"
  /\ \E found \in BOOLEAN :
       popup' = IF found
                THEN [popup EXCEPT !.currentTabId = TRUE, !.loading = "getVolume"]
                ELSE [popup EXCEPT !.loading = "none"]
  /\ UNCHANGED lastChange /\ PopupUnchanged

\* The getVolume request settles with a response that carries a volume.
GetVolumeAnswered ==
  /\ popup.loading = "getVolume"
  /\ \E volume \in PopupVolumes :
       popup' = updateVolumeDisplay(
                  [popup EXCEPT !.volumeSlider = volume, !.loading = "done"], volume)
  /\ UNCHANGED lastChange /\ PopupUnchanged

\* The getVolume request is rejected or answered without a volume: the popup
\* asks the storage.
GetVolumeFails ==
  /\ popup.loading = "getVolume"
  /\ popup' = [popup EXCEPT !.loading = "storage"]
  /\ UNCHANGED lastChange /\ PopupUnchanged

StorageGetCallback ==
  /\ popup.loading = "storage"
  /\ \E lastError \in BOOLEAN :
       popup' = storageGetCallback([popup EXCEPT !.loading = "done"], lastError)
  /\ UNCHANGED lastChange /\ PopupUnchanged

\* The user moves the slider.
SliderInput ==
  /\ Len(popup.sent) < MaxSent
  /\ \E volume \in PopupVolumes :
       /\ popup' = sendVolumeChange([popup EXCEPT !.volumeSlider = volume],
                                    volume, "debounced")
       /\ lastChange' = [volume |-> volume, mode |-> "debounced",
                        cancelled |-> popup.volumeChangeTimer]
  /\ PopupUnchanged

\* The 50 ms debounce timer runs.
DebounceFires ==
  /\ popup.volumeChangeTimer # << >>
  /\ popup' = [performVolumeChange(popup, popup.volumeChangeTimer[1])
                 EXCEPT !.volumeChangeTimer = << >>]
  /\ UNCHANGED lastChange /\ PopupUnchanged

\* A preset button is clicked.
ControlButton ==
  /\ Len(popup.sent) < MaxSent
  /\ \E volume \in PopupVolumes :
       LET p == [popup EXCEPT !.volumeSlider = volume]
       IN /\ popup' = IF p.isInputFocused
                      THEN blur([p EXCEPT !.volumeInput = << volume >>])
                      ELSE sendVolumeChange(p, volume, "immediate")
          /\ lastChange' = [volume |-> volume,
                            mode |-> IF p.isInputFocused THEN "applied" ELSE "immediate",
                            cancelled |-> popup.volumeChangeTimer]
  /\ PopupUnchanged

\* The input field gets the focus.
InputFocus ==
  /\ ~popup.isInputFocused
  /\ popup' = [popup EXCEPT !.originalValue = popup.volumeInput,
                            !.isInputFocused = TRUE]
  /\ UNCHANGED lastChange /\ PopupUnchanged

\* The user edits the text: a number in range moves the slider and the display
\* only; any other text does nothing.
InputTyped ==
  /\ popup.isInputFocused
  /\ \E text \in {<< v >> : v \in PopupVolumes} \cup {<< >>} :
       popup' = IF text # << >>
                THEN sendVolumeChange([popup EXCEPT !.volumeInput = text,
                                                    !.volumeSlider = text[1]],
                                      text[1], "deferred")
                ELSE [popup EXCEPT !.volumeInput = text]
  /\ UNCHANGED lastChange /\ PopupUnchanged

\* The input field loses the focus (click elsewhere or Enter).
InputBlur ==
  /\ popup.isInputFocused
  /\ Len(popup.sent) < MaxSent
  /\ popup' = blur(popup)
  /\ lastChange' = IF popup.volumeInput = << >> THEN lastChange
                   ELSE [volume |-> popup.volumeInput[1], mode |-> "applied",
                         cancelled |-> popup.volumeChangeTimer]
  /\ PopupUnchanged

\* The volume a changeVolume(delta) arrives at, for lastChange.
Stepped(p, delta) ==
  Max(0, Min(500, (IF p.volumeInput = << >> THEN 100 ELSE p.volumeInput[1]) + delta))

\* mousedown on the increase (delta 1) or decrease (delta -1) button.
MouseDown ==
  /\ Len(popup.holds) < MaxHolds
  /\ Len(popup.sent) < MaxSent
  /\ \E delta \in {1, -1} :
       /\ popup' = startHold(popup, delta)
       /\ lastChange' = [volume |-> Stepped(popup, delta), mode |-> "immediate",
                         cancelled |-> popup.volumeChangeTimer]
  /\ PopupUnchanged

\* A 500 ms hold timeout runs.
HoldTimerFires ==
  /\ \E id \in popup.timeouts : popup' = holdTimeout(popup, id)
  /\ UNCHANGED lastChange /\ PopupUnchanged

\* A 100 ms repeat interval runs its callback.
IntervalTick ==
  /\ popup.ticks < MaxTicks
  /\ Len(popup.sent) < MaxSent
  /\ \E id \in popup.intervals :
       /\ popup' = changeVolume([popup EXCEPT !.ticks = @ + 1], popup.holds[id])
       /\ lastChange' = [volume |-> Stepped(popup, popup.holds[id]),
                         mode |-> "immediate",
                         cancelled |-> popup.volumeChangeTimer]
  /\ PopupUnchanged

\* mouseup or mouseleave on the increase or decrease button.
StopHold ==
  /\ popup' = stopHold(popup)
  /\ UNCHANGED lastChange /\ PopupUnchanged

NextPopup ==
  \/ TabsQueryCallback
  \/ GetVolumeAnswered
  \/ GetVolumeFails
  \/ StorageGetCallback
  \/ SliderInput
  \/ DebounceFires
  \/ ControlButton
  \/ InputFocus
  \/ InputTyped
  \/ InputBlur

SpecPopup == InitPopup /\ [][NextPopup]_vars

\* The popup while the user works the + and - buttons and the slider.
NextHold ==
  \/ TabsQueryCallback
  \/ SliderInput
  \/ DebounceFires
  \/ MouseDown
  \/ HoldTimerFires
  \/ IntervalTick
  \/ StopHold

SpecHold == InitPopup /\ [][NextHold]_vars

\* ================================================================== claims

\* C1: before teardown, once an element has been connected no call issues
\* createMediaElementSource for it again, and a repeated connect changes neither
\* its connection state nor its local volume.
C1_ConnectAtMostOnce ==
  ~isCleanedUp =>
    /\ rewired = {}
    /\ \A e \in connectedElements, ok \in BOOLEAN :
         LET t == connectElementToWebAudio(Cur, e, ok)
         IN /\ t.rewired = rewired
            /\ t.connectedElements = connectedElements
            /\ t.audioSourceNode = audioSourceNode
            /\ t.datasetConnected = datasetConnected
            /\ t.platformSource = platformSource
            /\ t.elVolume = elVolume

\* A handler has called connect on an element that was already Connected.
C1_Witness ==
  /\ ~isCleanedUp
  /\ connectedElements # {}
  /\ connectedCallReturns # {}

\* The persisted volume has not been delivered: every Target Volume set so far
\* came from a setVolume message.
NoRestoreYet == initPending \/ storagePending

\* C2: last volume wins. When setVolume messages are the only source of Target
\* Volume: once the gain target holds the latest Target Volume, a step that
\* does not change the Target Volume (in particular a continuation scheduled by
\* an earlier setVolume) does not move the gain target away from it.
C2_LastVolumeWins ==
  [][(NoRestoreYet' /\ gainNode /\ gainTarget = currentVolume
        /\ currentVolume' = currentVolume)
       => gainTarget' = currentVolume']_vars

\* C3: whenever the context is Running and no resume continuation is
\* outstanding, the gain target equals the current Target Volume.
C3_GainReflectsTarget ==
  (ctx = "running" /\ pendingResumes = << >> /\ gainNode)
    => gainTarget = currentVolume

\* C4: at most one resume() call is in flight at any time.
C4_SingleResumeInFlight == Len(pendingResumes) <= 1

\* C5: the gesture activation handler has run at most once.
C5_HandlerOnce == NumGestureTypes - listeners <= 1

\* The platform resolves the resume() promise of handleUserActivation in this step.
ActivationResumed ==
  /\ pendingResumes # << >>
  /\ Head(pendingResumes).kind = "activation"
  /\ pendingResumes' = Tail(pendingResumes)
  /\ ctx' = "running"

\* C6: before teardown a Suspended context stays Suspended as long as no gesture
\* has occurred; and when the resume of a gesture succeeds, the context is
\* Running and the gain target is the Target Volume of that moment, with no
\* setVolume in that step.
C6_GestureAppliesTarget ==
  [][/\ (ctx = "suspended" /\ listeners' = NumGestureTypes /\ ~isCleanedUp')
          => ctx' = "suspended"
     /\ ActivationResumed
          => /\ currentVolume' = currentVolume
             /\ gainNode => (gainNode' /\ gainTarget' = currentVolume)]_vars

\* A volume was set while Suspended and not applied (its resumes were rejected);
\* a gesture has occurred and only its resume is still pending.
C6_Witness ==
  /\ ctx = "suspended"
  /\ gainNode
  /\ currentVolume # 100
  /\ gainTarget # currentVolume
  /\ Len(pendingResumes) = 1
  /\ Head(pendingResumes).kind = "activation"

\* C7: connect(element) on an element that is already Connected returns true.
C7_ConnectedReturnsTrue == connectedCallReturns \subseteq {TRUE}

\* C8: the AudioContext constructor is invoked at most once.
C8_OneContext == ctorCalls <= 1

\* The constructor threw on the first attempt; initialize, a setVolume and
\* teardown have all run since.
C8_Witness ==
  /\ ctorCalls = 1
  /\ ctx = "null"
  /\ ~initPending
  /\ currentVolume # 100
  /\ isCleanedUp

\* C9: every call of initializeAudioContext returns what the first call returned.
C9_CachedResult == Cardinality(initResults) <= 1

\* C10: every Connected element has local volume 1.0.
C10_ConnectedPinned == \A e \in connectedElements : elVolume[e] = 100

\* An element whose volume was not 1.0 has been connected.
C10_Witness == \E e \in connectedElements : elVolume[e] = 100 /\ 100 \notin ElVolumes

\* C11: Target Volume lies in [0.0, 5.0] in every reachable state, whatever
\* setVolume requests carry and whatever value is restored from storage.
C11_TargetInRange == 0 <= currentVolume /\ currentVolume <= 500

\* Requested volumes the clamp is probed with: the requests the page receives,
\* the two ends of the range and a value inside it.
ProbeVolumes == ReqVolumes \cup {0, 350, 500}

\* C12: for every requested volume v the setVolume handler sets Target Volume
\* to min(5, max(0, v)) and responds with that same value; 6.0 gives 5.0 and
\* -1.0 gives 0.0.
C12_SetVolumeClamps ==
  \A v \in ProbeVolumes, o \in Outcomes, okf \in [page -> BOOLEAN] :
    LET t == onMessage(Cur, [action |-> "setVolume", volume |-> v], o[1], o[2], okf)
        w == IF v < 0 THEN 0 ELSE IF v > 500 THEN 500 ELSE v
    IN /\ t.currentVolume = w
       /\ t.response.sent
       /\ t.response.volume = w
       /\ v = 600 => t.response.volume = 500
       /\ v = -100 => t.response.volume = 0

\* A setVolume(-1.0) message has been handled: nothing else sets Target Volume to 0.
C12_Witness == currentVolume = 0 /\ -100 \in ReqVolumes /\ 0 \notin SavedVolumes

\* C13: getVolume answers with the current Target Volume and changes no state
\* (Target Volume, gain target, tracked set, registry and everything else are
\* as before); issued right after a setVolume whose response echoed w, it
\* answers w.
C13_GetVolumePure ==
  /\ LET g == onMessage(Cur, [action |-> "getVolume"], "ok", "running",
                        [e \in page |-> TRUE])
     IN /\ g.response.sent
        /\ g.response.volume = currentVolume
        /\ [g EXCEPT !.response = NoResponse] = Cur
  /\ \A v \in ReqVolumes, o \in Outcomes, okf \in [page -> BOOLEAN] :
       LET t == onMessage(Cur, [action |-> "setVolume", volume |-> v], o[1], o[2], okf)
           g == onMessage(t, [action |-> "getVolume"], "ok", "running",
                          [e \in page |-> TRUE])
       IN /\ g.response.volume = t.response.volume
          /\ [g EXCEPT !.response = t.response] = t

\* A setVolume(-1.0) was handled while the context was Suspended, so the gain
\* target still differs from Target Volume, and an element is tracked and
\* Connected: a getVolume here has state it could disturb.
C13_Witness ==
  /\ currentVolume = 0
  /\ gainNode
  /\ gainTarget # currentVolume
  /\ mediaElements # << >>
  /\ connectedElements # {}

\* connect(e) reaches createMediaElementSource and the platform refuses: it is
\* told to (ok = FALSE) or it has already bound a source node to the element.
Refused(s, e, ok) ==
  /\ s.ctx # "null" /\ s.gainNode
  /\ e \notin s.connectedElements
  /\ ~s.audioSourceNode[e]
  /\ ~ok \/ s.platformSource[e]

\* The elements one pass tried to wire and left Unconnected.
RefusedInPass(t) == { e \in Elems : t.attempts[e] > 0 /\ e \notin t.connectedElements }

\* C14: a refused connect returns false and leaves the element Unconnected
\* (not in the registry, no markers); the reconcile a Target Volume change
\* triggers (lines 130-132: discover, then connect all) makes no further wiring
\* attempt on an element it was refused; and the next reconcile pass attempts
\* the refused element again.
C14_RefusedStaysUnconnected ==
  /\ \A e \in page, ok \in BOOLEAN :
       Refused(Cur, e, ok) =>
         LET t == connectElementToWebAudio(Cur, e, ok)
         IN /\ ~t.ret
            /\ t.attempts[e] = 1
            /\ e \notin t.connectedElements
            /\ ~t.audioSourceNode[e]
            /\ ~t.datasetConnected[e]
  /\ \A v \in ReqVolumes, o \in Outcomes, okf \in [page -> BOOLEAN] :
       LET t == onMessage(Cur, [action |-> "setVolume", volume |-> v], o[1], o[2], okf)
       IN \A e \in Elems : t.attempts[e] <= 1
  /\ (ctx # "null" /\ gainNode) =>
       \A okf \in [page -> BOOLEAN] :
         LET t == connectAllAfterResume(Cur, okf)
         IN \A e \in RefusedInPass(t) :
              /\ ~t.audioSourceNode[e] /\ ~t.datasetConnected[e]
              /\ \A okf2 \in [page -> BOOLEAN] :
                   LET u == connectAllAfterResume(
                              [t EXCEPT !.attempts = [x \in Elems |-> 0]], okf2)
                   IN u.attempts[e] = 1

CapabilityAbsent == initializationAttempted /\ ctx = "null"

\* initializeAudioContext, connectElementToWebAudio and applyVolumeWithWebAudio
\* each return false and no element is Connected.
OperationsFail ==
  /\ \A o \in Outcomes : ~initializeAudioContext(Cur, o[1], o[2]).ret
  /\ \A e \in page, ok \in BOOLEAN : ~connectElementToWebAudio(Cur, e, ok).ret
  /\ \A v \in ProbeVolumes : ~applyVolumeWithWebAudio(Cur, v).ret
  /\ connectedElements = {}

\* C16: without audio capability every dependent operation reports failure:
\* initializeAudioContext, connectElementToWebAudio and applyVolumeWithWebAudio
\* return false, no element is Connected, and the setVolume response carries a
\* failure flag.
C16_FailureFlags ==
  CapabilityAbsent =>
    /\ OperationsFail
    /\ \A v \in ReqVolumes, o \in Outcomes, okf \in [page -> BOOLEAN] :
         LET t == onMessage(Cur, [action |-> "setVolume", volume |-> v],
                            o[1], o[2], okf)
         IN t.response.sent /\ ~t.response.success

\* The debounce timer fires in this step: the batch flush, which tracks and
\* connects queued elements without any discover.
FlushStep == processingTimer /\ ~processingTimer'

\* C17: a discover made less than 500 ms after the previous effective one is a
\* no-op. In every step taken inside the throttle window, other than a batch
\* flush, and so in every handler that calls findMediaElements there, no
\* untracked element joins the tracked set and none is passed to connect (it
\* is not registered and its volume is not pinned), even when it is in the
\* document.
C17_ThrottledDiscoverNoOp ==
  [][(throttled /\ ~FlushStep) =>
       \A e \in Elems :
         ~Includes(mediaElements, e) =>
           /\ ~Includes(mediaElements', e)
           /\ e \in connectedElements' => e \in connectedElements
           /\ elVolume'[e] = elVolume[e]]_vars

\* Inside the throttle window, with a context to connect to, an element is in
\* the document that the last effective discover did not see.
C17_Witness ==
  /\ throttled /\ gainNode /\ ctx = "running" /\ ~isCleanedUp
  /\ \E e \in page :
       /\ isConnected[e]
       /\ ~Includes(mediaElements, e)
       /\ e \notin connectedElements

\* The resume() awaited by connectAllMediaElements (line 145) settles in this
\* step, resolved or rejected: the reconcile that a Target Volume change
\* started while the context was Suspended finishes here.
ConnectAllSettles ==
  /\ pendingResumes # << >>
  /\ Head(pendingResumes).kind = "connectAll"
  /\ pendingResumes' = Tail(pendingResumes)

\* C18: when the reconcile triggered by a Target Volume change finishes, no
\* detached element is in the tracked set, also when the context was Suspended
\* and also when its resume fails.
C18_ReconcilePrunes ==
  [][ConnectAllSettles =>
       \A i \in 1..Len(mediaElements') : isConnected'[mediaElements'[i]]]_vars

\* C19: the elements inserted within one debounce window are handled by one
\* flush. The step in which the timer fires empties the queue and leaves no
\* timer armed, tracks every queued element and passes it to connect (with a
\* context present the element comes out Connected, or refused with its volume
\* already pinned by line 74), leaves every Connected element at local volume
\* 1.0, and changes neither the gain target nor Target Volume.
C19_OneFlushConnectsAll ==
  [][FlushStep =>
       /\ processingQueue' = << >>
       /\ ~processingTimer'
       /\ \A i \in 1..Len(processingQueue) :
            LET e == processingQueue[i]
            IN /\ Includes(mediaElements', e)
               /\ (ctx # "null" /\ gainNode) => elVolume'[e] = 100
       /\ \A e \in connectedElements' : elVolume'[e] = 100
       /\ gainTarget' = gainTarget
       /\ currentVolume' = currentVolume]_vars

\* Two different elements were inserted within one debounce window (both are
\* queued, the timer is armed once) while a Target Volume other than 1.0 is
\* the gain target.
C19_Witness ==
  /\ processingTimer
  /\ Len(processingQueue) = 2
  /\ processingQueue[1] # processingQueue[2]
  /\ \A i \in 1..2 : processingQueue[i] \notin connectedElements
                       /\ elVolume[processingQueue[i]] # 100
  /\ gainNode /\ ctx = "running"
  /\ currentVolume # 100 /\ gainTarget = currentVolume

ActivationResumable ==
  /\ pendingResumes # << >>
  /\ Head(pendingResumes).kind = "activation"
  /\ ctx \in {"suspended", "running"}
  /\ AllowedToStart

\* The tracked elements that are attached and Unconnected after a refused
\* connect: the graph exists, the element is neither registered nor marked.
AwaitingRetry ==
  { e \in Elems : /\ Includes(mediaElements, e) /\ isConnected[e]
                  /\ gainNode
                  /\ e \notin connectedElements /\ ~audioSourceNode[e] }

\* C21: when the resume of a gesture succeeds, its continuation runs a
\* reconcile pass: every tracked element that is attached and Unconnected gets
\* one new wiring attempt there, with no setVolume and no mutation.
C21_RetryAfterGesture ==
  ActivationResumable =>
    \A okf \in [page -> BOOLEAN] :
      LET t == continuation([Cur EXCEPT !.ctx = "running",
                                        !.pendingResumes = Tail(@)],
                            Head(pendingResumes), okf)
      IN /\ t.currentVolume = currentVolume
         /\ \A e \in AwaitingRetry :
              /\ t.attempts[e] = 1
              /\ okf[e] /\ ~platformSource[e] => e \in t.connectedElements

\* Before teardown an element was refused (its volume is pinned, it is not
\* registered), a gesture has occurred and its resume is the next to settle.
C21_Witness ==
  /\ ActivationResumable /\ ctx = "suspended" /\ ~isCleanedUp
  /\ \E e \in AwaitingRetry :
       elVolume[e] = 100 /\ ~platformSource[e] /\ 100 \notin ElVolumes

\* initialize() runs in this step.
InitializeStep == initPending /\ ~initPending'

\* The chrome.storage.local.get callback of loadSavedVolume runs in this step.
ReadCompletes == storagePending /\ ~storagePending'

\* C22: initialization reads the persisted value, in every initialization
\* outcome (also when the audio context could not be created): initialize
\* leaves the read issued, and when the read completes Target Volume is the
\* persisted value over 100, or unchanged when none is persisted.
C22_RestoreInEveryOutcome ==
  [][/\ InitializeStep => storagePending'
     /\ ReadCompletes =>
          \/ currentVolume' = currentVolume
          \/ \E saved \in SavedVolumes : currentVolume' = saved]_vars

\* C23: teardown is idempotent and complete. Run before any teardown, cleanup
\* disconnects and clears the observer, requests close once if a context
\* exists that is not closed, clears the markers of every tracked element and
\* empties the tracked set and the registry; run again (pagehide after
\* beforeunload) it changes nothing. Over a whole behaviour close is requested
\* at most once.
C23_TeardownOnce ==
  /\ closeCalls <= 1
  /\ ~isCleanedUp =>
       LET t == cleanup(Cur)
           tracked == { mediaElements[i] : i \in 1..Len(mediaElements) }
       IN /\ cleanup(t) = t
          /\ t.isCleanedUp
          /\ t.mutationObserver = "null" /\ t.observing = 0
          /\ t.closeCalls = (IF ctx \in {"suspended", "running"} THEN 1 ELSE 0)
          /\ t.closePending = (ctx \in {"suspended", "running"})
          /\ \A e \in tracked : ~t.audioSourceNode[e] /\ ~t.datasetConnected[e]
          /\ t.mediaElements = << >>
          /\ t.connectedElements = {}
  /\ isCleanedUp => cleanup(Cur) = Cur

\* Teardown has run on a page with an observer, a live context and a Connected
\* element: close was requested, the element's markers are gone while the
\* platform still holds its source node.
C23_Witness ==
  /\ isCleanedUp /\ closeCalls = 1 /\ closePending
  /\ mutationObserver = "null" /\ ~initPending
  /\ mediaElements = << >> /\ connectedElements = {}
  /\ \E e \in page : platformSource[e] /\ ~audioSourceNode[e] /\ ~datasetConnected[e]

\* C26: a setVolume(v) handled after initialize has run and before the storage
\* read completes is not overwritten: whatever the callback then delivers,
\* Target Volume and the gain target stay as that setVolume left them.
C26_RestoreDoesNotOverwrite ==
  (~initPending /\ storagePending) =>
    \A v \in ReqVolumes, okf \in [page -> BOOLEAN],
       saved \in BOOLEAN, savedVolume \in SavedVolumes :
      LET t == onMessage(Cur, [action |-> "setVolume", volume |-> v],
                         "ok", "running", okf)
          u == storageCallback(t, saved, savedVolume, "ok", "running", okf)
      IN u.currentVolume = t.currentVolume /\ u.gainTarget = t.gainTarget

C28_TrackedOnce ==
  \A i, j \in DOMAIN mediaElements :
    i # j => mediaElements[i] # mediaElements[j]

\* An element that discovery or an earlier flush already tracks is in the
\* pending batch twice, and the flush of that batch is due.
C28_Witness ==
  /\ processingTimer
  /\ \E e \in page :
       /\ Includes(mediaElements, e)
       /\ \E i, j \in DOMAIN processingQueue :
            i # j /\ processingQueue[i] = e /\ processingQueue[j] = e

\* C29: once teardown has run, no later event (setVolume message, gesture,
\* debounce timer armed earlier, pending resume or storage callback) adds an
\* element to mediaElements, marks an element Connected, or calls
\* createMediaElementSource on the closed context.
C29_InertAfterTeardown ==
  [][(isCleanedUp /\ ~InitializeStep) =>
       /\ \A e \in Elems : Includes(mediaElements', e) => Includes(mediaElements, e)
       /\ connectedElements' \subseteq connectedElements
       /\ ctx = "closed" =>
            \A v \in ReqVolumes, okf \in [page -> BOOLEAN] :
              LET t == onMessage(Cur, [action |-> "setVolume", volume |-> v],
                                 "ok", "running", okf)
              IN \A e \in Elems : t.attempts[e] = 0]_vars

\* C27: with the debounce timer fairly scheduled, every element the armed
\* observer queued is eventually taken out of the queue by a batch flush, which
\* tracks it and passes it to connect; and a later mutation that re-arms the
\* timer keeps every element already queued.
C27_QueuedEventuallyFlushed ==
  /\ [][\A e \in page :
          Includes(processingQueue, e) /\ ~FlushStep => Includes(processingQueue', e)]_vars
  /\ \A e \in Elems :
       Includes(processingQueue, e) ~>
         (~Includes(processingQueue, e) /\ Includes(mediaElements, e))

\* Two different elements wait in one batch: the second insertion re-armed the
\* timer while the first was still queued.
C27_Witness ==
  /\ processingTimer
  /\ mutationObserver = "observing"
  /\ Len(processingQueue) = 2
  /\ processingQueue[1] # processingQueue[2]

\* C24: when the popup's getVolume request failed or carried no volume and the
\* storage read succeeds, the popup shows the value stored for the hostname,
\* and 100 only when nothing is stored (a stored 0 is shown as 0).
C24_FallbackShowsStored ==
  popup.loading = "storage" =>
    LET t == storageGetCallback(popup, FALSE)
        shown == IF popup.stored = << >> THEN 100 ELSE popup.stored[1]
    IN t.volumeInput = << shown >> /\ t.volumeSlider = shown

\* C30: in the popup the last user action wins. A step issues at most one
\* setVolume message; the message and the storage write carry the volume of
\* the user's latest change and leave no debounce timer pending (an immediate
\* or applied change cancels it); a slider move sends nothing and leaves only
\* its own value pending.
C30_LastActionWins ==
  [][/\ Len(popup'.sent) <= Len(popup.sent) + 1
     /\ Len(popup'.sent) > Len(popup.sent) =>
          /\ popup'.sent[Len(popup'.sent)] = lastChange'.volume
          /\ popup'.stored = << lastChange'.volume >>
          /\ popup'.volumeChangeTimer = << >>
     /\ (popup'.volumeChangeTimer # << >>
           /\ popup'.volumeChangeTimer # popup.volumeChangeTimer) =>
          /\ popup'.sent = popup.sent
          /\ popup'.volumeChangeTimer = << lastChange'.volume >>]_vars

\* A preset button or an applied input-field value has just sent its volume
\* while a slider change to another volume was pending; that slider value
\* was never sent and no timer is left.
C30_Witness ==
  /\ lastChange.mode \in {"immediate", "applied"}
  /\ lastChange.cancelled # << >>
  /\ lastChange.cancelled # << lastChange.volume >>
  /\ popup.sent = << lastChange.volume >>
  /\ popup.volumeChangeTimer = << >>

\* C31: in the popup's hold-to-repeat logic at most one hold timeout and one
\* repeat interval are scheduled at any time, and once stopHold has run none
\* is left that could change the volume, whatever sequence of mousedown,
\* mouseup and mouseleave events came before.
C31_OneHoldTimer ==
  /\ Cardinality(popup.timeouts) <= 1
  /\ Cardinality(popup.intervals) <= 1
  /\ LET t == stopHold(popup)
     IN t.timeouts = {} /\ t.intervals = {}

====
